---- MODULE Spec2Model ----
(***************************************************************************)
(* A model of the rogger logging library: the level gate, the entry        *)
(* derivations, the text formatter with its reserved-key renaming, the     *)
(* caller resolver, and the guarded Format+Write critical section.         *)
(*                                                                         *)
(* Go strings that are rendered through appendValue are sequences of       *)
(* atoms (a word of safe characters, or one special character); keys are   *)
(* TLA+ strings, concatenated with \o as the code concatenates them.       *)
(***************************************************************************)
EXTENDS Integers, Sequences, FiniteSets, TLC

VARIABLES
    Level,          \* Logger.Level, the minimum level
    ReportCaller,   \* Logger.ReportCaller
    Formatter,      \* the installed TextFormatter's configuration
    callerVars,     \* packageName, minCallerDepth, callerInitOnce (caller.go)
    exited,         \* the exit code the process ended with, or None
    cur,            \* the entry a statement is building (WithParams chain)
    derived,        \* number of derivations applied to cur
    call,           \* record of the last completed call
    entries,        \* the heap's Entry objects; Data is a reference into maps
    maps,           \* the heap's Params maps
    born,           \* each heap entry's observable state when it was made
    pc,             \* where each goroutine is in its log statement
    done,           \* the number of statements each goroutine has finished
    stmt,           \* the level each goroutine's current statement logs at
    local,          \* Entry.log's copy of the entry (its value receiver)
    mu,             \* Logger.mu.m: the goroutine holding it, 0 when free
    muDisabled,     \* Logger.mu.disabled
    sink,           \* what Logger.Out has received, in order
    buffers,        \* the contents of every bytes.Buffer made so far
    bufferPool,     \* the buffers resting in bufferPool
    hbuf,           \* the buffer each goroutine holds, 0 for none
    pooled,         \* the Entry objects made through Logger.newEntry
    entryPool,      \* the entries resting in Logger.entryPool
    hent,           \* the pooled entry each goroutine holds, 0 for none
    issued,         \* the statements that passed Logger.Log's gate
    outIsStderr,    \* Logger.Out is os.Stderr (New's default)
    userFormatter,  \* Logger.Formatter is a user's Formatter, which may fail
    diag,           \* what fmt.Fprintf(os.Stderr, ...) has written, in order
    failed,         \* the statements whose Format or Write returned an error
    op,             \* the Logger method each goroutine is in
    gets,           \* entryPool.Get calls of each goroutine's current call
    puts,           \* entryPool.Put calls of each goroutine's current call
    ret             \* the entry each goroutine's With* call is returning

loggerVars == <<Level, ReportCaller, Formatter, callerVars, exited>>
chainVars == <<cur, derived>>
heapVars == <<entries, maps, born>>
faultVars == <<outIsStderr, userFormatter, diag, failed>>
poolVars == <<op, gets, puts, ret>>
concVars == <<pc, done, stmt, local, mu, muDisabled, sink, buffers, bufferPool,
              hbuf, pooled, entryPool, hent, issued, faultVars, poolVars>>
vars == <<loggerVars, chainVars, call, heapVars, concVars>>

(***************************************************************************)
(* Bounds of the model.                                                    *)
(***************************************************************************)
MaxExtraLevel == 1      \* levels past FatalLevel that SetLevel may install
MaxFields == 2          \* fields supplied to one WithParams call
MaxDerive == 2          \* derivations chained before an emission
MaxUserDepth == 1       \* application frames between main.main and the call
MaxEntries == 3         \* Entry objects on the heap
NumProcs == 2           \* goroutines logging on the one Logger
MaxStmts == 1           \* statements each goroutine issues
MaxFailures == 1        \* Format or Write errors in one run
MaxRunStmts == 2        \* calls issued in one run of SpecFail or SpecPool

(***************************************************************************)
(* constants.go                                                            *)
(***************************************************************************)
TraceLevel == 0
DebugLevel == 1
InfoLevel == 2
WarnLevel == 3
ErrorLevel == 4
FatalLevel == 5

maxCallerDepth == 25
knownFrames == 4

timeKey == "time"
msgKey == "message"
levelKey == "level"
errKey == "error"
funcKey == "func"
fileKey == "file"
paramsPrefix == "params"

Levels == TraceLevel..(FatalLevel + MaxExtraLevel)
DefinedLevels == TraceLevel..FatalLevel

None == [none |-> TRUE]

(***************************************************************************)
(* Strings as sequences of atoms.                                          *)
(***************************************************************************)
\* the characters needsQuoting does not accept, among those the model uses
SpecialAtoms == {" ", "\"", ":", "=", "(", ")", "*", ",", "\\", "\n"}

Str(word) == <<word>>
EmptyStr == <<>>

\* needsQuoting: the empty text, or any character outside the safe set
needsQuoting(text) ==
    \/ Len(text) = 0
    \/ \E i \in 1..Len(text) : text[i] \in SpecialAtoms

\* fmt.Sprintf("%q", s): quotes around s, a backslash before quote and backslash
RECURSIVE Escape(_)
Escape(s) ==
    IF s = <<>> THEN <<>>
    ELSE (IF Head(s) \in {"\"", "\\"} THEN <<"\\", Head(s)>>
          ELSE IF Head(s) = "\n" THEN <<"\\", "n">>
          ELSE <<Head(s)>>) \o Escape(Tail(s))

Quote(s) == <<"\"">> \o Escape(s) \o <<"\"">>

\* appendValue: the string itself, or fmt.Sprint of the value, quoted if needed
StringValue(s) == [kind |-> "string", s |-> s]
FuncValue == [kind |-> "func", s |-> <<>>]
PtrFuncValue == [kind |-> "ptrfunc", s |-> <<>>]

Sprint(value) == value.s

appendValue(value) ==
    LET stringVal == Sprint(value)
    IN  IF needsQuoting(stringVal) THEN Quote(stringVal) ELSE stringVal

(***************************************************************************)
(* Level.String (rogger.go)                                                *)
(***************************************************************************)
LevelString(l) ==
    CASE l = DebugLevel -> Str("debug")
      [] l = InfoLevel -> Str("info")
      [] l = WarnLevel -> Str("warn")
      [] l = ErrorLevel -> Str("error")
      [] l = FatalLevel -> Str("fatal")
      [] OTHER -> Str("unknown")

\* a gate that lets a level through only above the minimum
IsLevelEnabledStrict(level, minimum) == level > minimum

IsLevelEnabled(level, minimum) == level >= minimum

(***************************************************************************)
(* caller.go: the caller resolver.  A function name is a sequence of atoms *)
(* in which "." and "/" are atoms of their own; a stack is a sequence of   *)
(* frames, innermost first (index 0 in Go is runtime.Callers itself).      *)
(***************************************************************************)
RECURSIVE LastIndex(_, _)
\* strings.LastIndex for a one-character separator; 0 stands for Go's -1
LastIndex(f, sep) ==
    IF f = <<>> THEN 0
    ELSE IF f[Len(f)] = sep THEN Len(f)
    ELSE LastIndex(SubSeq(f, 1, Len(f) - 1), sep)

RECURSIVE getPackageName(_)
getPackageName(f) ==
    LET lastPeriod == LastIndex(f, ".")
        lastSlash == LastIndex(f, "/")
    IN  IF lastPeriod > lastSlash
        THEN getPackageName(SubSeq(f, 1, lastPeriod - 1))
        ELSE f

Frame(fn, file, ln) == [Function |-> fn, File |-> file, Line |-> ln]

LibPath == <<"github", ".", "com", "/", "sinhashubham95", "/", "rogger">>
LibFunc(recv, name) == LibPath \o <<".", "(", "*", recv, ")", ".", name>>
LibFrame(recv, name, file) == Frame(LibFunc(recv, name), Str(file), 1)

\* runtime.FuncForPC(pc).Name(): a zero pc has no function, and the name of a
\* nil *Func is the empty string
FuncForPCName(addr, stack) ==
    IF addr = 0 \/ addr > Len(stack) THEN <<>> ELSE stack[addr].Function

\* the body of callerInitOnce.Do: pcs is allocated zeroed and never filled
callerInitPcs == <<0, 0>>
callerInitPackageName(stack) ==
    getPackageName(FuncForPCName(callerInitPcs[2], stack))

\* runtime.Callers(skip, pcs): the frames from index skip on, at most len(pcs)
Callers(skip, stack, size) ==
    IF skip + 1 > Len(stack) THEN <<>>
    ELSE SubSeq(stack, skip + 1,
                IF Len(stack) < skip + size THEN Len(stack) ELSE skip + size)

\* the loop over frames.Next(): a frame is examined only while `again` (more
\* frames follow it) holds, so the last captured frame is never examined
RECURSIVE walkFrames(_, _, _)
walkFrames(frames, i, pkgName) ==
    IF i >= Len(frames) THEN None
    ELSE IF getPackageName(frames[i].Function) # pkgName THEN frames[i]
    ELSE walkFrames(frames, i + 1, pkgName)

\* the package-level variables of caller.go after init() of entry.go
CallerVars0 == [packageName |-> <<>>, minCallerDepth |-> 1, initDone |-> FALSE]

\* callerInitOnce.Do(...): runs its body on the first call only
callerInit(cv, stack) ==
    IF cv.initDone THEN cv
    ELSE [packageName |-> callerInitPackageName(stack),
          minCallerDepth |-> knownFrames,
          initDone |-> TRUE]

\* getCaller: the frame it returns (None for nil), given the package variables
\* as callerInit left them
getCaller(cv, stack) ==
    LET frames == Callers(cv.minCallerDepth, stack, maxCallerDepth)
    IN  walkFrames(frames, 1, cv.packageName)

(***************************************************************************)
(* formatter.go: fixParamsClash                                            *)
(***************************************************************************)
\* the renaming without its delete(data, k)
renameKeyNoDelete(data, k) ==
    IF k \in DOMAIN data
    THEN [x \in DOMAIN data \cup {paramsPrefix \o k} |->
            IF x = paramsPrefix \o k THEN data[k] ELSE data[x]]
    ELSE data

\* if v, ok := data[k]; ok { data[paramsPrefix+k] = v; delete(data, k) }
renameKey(data, k) ==
    IF k \in DOMAIN data
    THEN [x \in (DOMAIN data \ {k}) \cup {paramsPrefix \o k} |->
            IF x = paramsPrefix \o k THEN data[k] ELSE data[x]]
    ELSE data

fixParamsClash(data, reportCaller) ==
    LET d1 == renameKey(data, timeKey)
        d2 == renameKey(d1, msgKey)
        d3 == renameKey(d2, levelKey)
        d4 == renameKey(d3, errKey)
    IN  IF reportCaller
        THEN renameKey(renameKey(d4, funcKey), fileKey)
        ELSE d4

(***************************************************************************)
(* entry.go                                                                *)
(***************************************************************************)
EmptyParams == [k \in {} |-> None]
NoCaller == None
ZeroTime == 0

\* NewEntry(logger): the zero value of every field but Logger and Data
NewEntry(logger) ==
    [Logger |-> logger, Data |-> EmptyParams, Time |-> ZeroTime,
     Level |-> TraceLevel, Caller |-> NoCaller, Message |-> EmptyStr,
     err |-> EmptyStr]

HasCaller(entry, reportCaller) ==
    entry.Logger /\ reportCaller /\ entry.Caller # NoCaller

\* fmt.Sprintf("can not add field %q", k)
cannotAdd(k) ==
    <<"can", " ", "not", " ", "add", " ", "field", " ">> \o Quote(Str(k))

isErrField(v) == v.kind \in {"func", "ptrfunc"}

\* one pass of the loop over params, in the map's iteration order `iter`
RECURSIVE withParamsLoop(_, _, _, _, _)
withParamsLoop(entryErr, acc, params, iter, i) ==
    IF i > Len(iter) THEN acc
    ELSE LET k == iter[i]
             v == params[k]
             tmp == cannotAdd(k)
             next ==
                IF isErrField(v)
                THEN [acc EXCEPT !.err =
                        IF acc.err # EmptyStr
                        THEN entryErr \o <<",", " ">> \o tmp
                        ELSE tmp]
                ELSE [acc EXCEPT !.data =
                        [x \in DOMAIN acc.data \cup {k} |->
                            IF x = k THEN v ELSE acc.data[x]]]
         IN  withParamsLoop(entryErr, next, params, iter, i + 1)

WithParams(entry, params, iter) ==
    LET res == withParamsLoop(entry.err,
                              [data |-> entry.Data, err |-> entry.err],
                              params, iter, 1)
    IN  [entry EXCEPT !.Data = res.data, !.err = res.err]

WithParam(entry, key, value) ==
    WithParams(entry, [k \in {key} |-> value], <<key>>)

WithError(entry, err) == WithParam(entry, errKey, err)

WithTime(entry, t) == [entry EXCEPT !.Time = t]

(***************************************************************************)
(* textformatter.go                                                        *)
(***************************************************************************)
\* the keys of the model in the order sort.Strings puts them
SortedKeys ==
    <<"a", "b", "error", "file", "func", "level", "message",
      "paramserror", "paramsfile", "paramsfunc", "paramslevel",
      "paramsmessage", "paramsparamstime", "paramstime", "time">>

sortStrings(keys) == SelectSeq(SortedKeys, LAMBDA k : k \in keys)

Perms(S) ==
    {p \in [1..Cardinality(S) -> S] : \A i, j \in 1..Cardinality(S) :
        p[i] = p[j] => i = j}

TextFormatter(disableTimestamp, disableSorting) ==
    [DisableTimestamp |-> disableTimestamp, DisableSorting |-> disableSorting]

\* entry.Time.Format(tsFormat) with the default RFC3339 layout, which holds ':'
formatTime(t) == <<"T", ToString(t), ":", "00", "Z">>

\* fmt.Sprintf("%s:%d", entry.Caller.File, entry.Caller.Line)
fileValOf(caller) == caller.File \o <<":", ToString(caller.Line)>>

\* the key list with the error key added whatever entry.err holds
fixedKeysOfAlwaysErr(f, entry, hasCaller, paramKeys) ==
    (IF ~f.DisableTimestamp THEN <<timeKey>> ELSE <<>>)
    \o (IF entry.Message # EmptyStr THEN <<msgKey>> ELSE <<>>)
    \o <<levelKey, errKey>>
    \o paramKeys

fixedKeysOf(f, entry, hasCaller, paramKeys) ==
    (IF ~f.DisableTimestamp THEN <<timeKey>> ELSE <<>>)
    \o (IF entry.Message # EmptyStr THEN <<msgKey>> ELSE <<>>)
    \o <<levelKey>>
    \o (IF entry.err # EmptyStr THEN <<errKey>> ELSE <<>>)
    \o (IF hasCaller
        THEN (IF entry.Caller.Function # EmptyStr THEN <<funcKey>> ELSE <<>>)
             \o (IF fileValOf(entry.Caller) # EmptyStr THEN <<fileKey>> ELSE <<>>)
        ELSE <<>>)
    \o paramKeys

\* the switch of the rendering loop; funcVal and fileVal stay "" without a caller
valueOf(key, entry, hasCaller, data) ==
    LET funcVal == IF hasCaller THEN entry.Caller.Function ELSE EmptyStr
        fileVal == IF hasCaller THEN fileValOf(entry.Caller) ELSE EmptyStr
    IN  CASE key = timeKey -> StringValue(formatTime(entry.Time))
          [] key = msgKey -> StringValue(entry.Message)
          [] key = levelKey -> StringValue(LevelString(entry.Level))
          [] key = errKey -> StringValue(entry.err)
          [] key = funcKey -> StringValue(funcVal)
          [] key = fileKey -> StringValue(fileVal)
          [] OTHER -> data[key]

\* TextFormatter.Format: the pairs of the rendered line, in order.  `iter` is
\* the order in which the loop over the map `data` yields its keys.
Format(f, entry, reportCaller, iter) ==
    LET hasCaller == HasCaller(entry, reportCaller)
        data == fixParamsClash(entry.Data, hasCaller)
        paramKeys == IF f.DisableSorting THEN iter ELSE sortStrings(DOMAIN data)
        fixedKeys == fixedKeysOf(f, entry, hasCaller, paramKeys)
    IN  [i \in 1..Len(fixedKeys) |->
            [key |-> fixedKeys[i],
             value |-> appendValue(valueOf(fixedKeys[i], entry, hasCaller, data))]]

\* the iteration orders the map Format ranges over can have
FormatIters(entry, reportCaller) ==
    Perms(DOMAIN fixParamsClash(entry.Data, HasCaller(entry, reportCaller)))

\* appendData for every pair, then the newline: the bytes handed to Write
RECURSIVE lineBytes(_, _)
lineBytes(pairs, i) ==
    IF i > Len(pairs) THEN <<"\n">>
    ELSE (IF i > 1 THEN <<" ">> ELSE <<>>)
         \o <<pairs[i].key, "=">> \o pairs[i].value \o lineBytes(pairs, i + 1)

(***************************************************************************)
(* Call stacks.  A log statement reaches getCaller through Entry.log, the  *)
(* Entry method of its style, the Logger method of its style when it was   *)
(* issued on the Logger, and the level method (Info, Fatalf, ...) when it  *)
(* was issued through one.                                                 *)
(***************************************************************************)
Styles == {"Log", "Logf", "Logln"}
Receivers == {"Logger", "Entry"}

styleSuffix(style) ==
    CASE style = "Log" -> "" [] style = "Logf" -> "f" [] style = "Logln" -> "ln"

\* the level methods (there is no Trace method) and the level each passes on
LevelMethods == {"Debug", "Info", "Warn", "Error", "Fatal"}

methodLevel(via) ==
    CASE via = "Debug" -> DebugLevel
      [] via = "Info" -> InfoLevel
      [] via = "Warn" -> WarnLevel
      [] via = "Error" -> ErrorLevel
      [] via = "Fatal" -> FatalLevel

RuntimeFrame(name) == Frame(<<"runtime", ".", name>>, Str("runtime"), 1)
MainFrame == Frame(<<"main", ".", "main">>, Str("main.go"), 10)
AppFrame ==
    Frame(<<"example", ".", "com", "/", "app", ".", "(", "*", "Server", ")",
            ".", "Serve">>, Str("server.go"), 20)

\* `via` is "direct" for a call of Log/Logf/Logln, else the level method's name
libFrames(recv, style, via) ==
    <<RuntimeFrame("Callers"),
      Frame(LibPath \o <<".", "getCaller">>, Str("caller.go"), 1),
      Frame(LibPath \o <<".", "Entry", ".", "log">>, Str("entry.go"), 1),
      LibFrame("Entry", style, "entry.go")>>
    \o (IF recv = "Logger" THEN <<LibFrame("Logger", style, "rogger.go")>>
        ELSE <<>>)
    \o (IF via = "direct" THEN <<>>
        ELSE <<LibFrame(recv, via \o styleSuffix(style),
                        IF recv = "Logger" THEN "rogger.go" ELSE "entry.go")>>)

RECURSIVE repeatFrame(_, _)
repeatFrame(fr, n) == IF n = 0 THEN <<>> ELSE <<fr>> \o repeatFrame(fr, n - 1)

\* the application's frames: `depth` nested calls below main.main
userFrames(depth) ==
    repeatFrame(AppFrame, depth)
    \o <<MainFrame, RuntimeFrame("main"), RuntimeFrame("goexit")>>

StackOf(recv, style, via, depth) == libFrames(recv, style, via) \o userFrames(depth)

(***************************************************************************)
(* The emission path: Entry.log, Entry.write, Entry.Log, Logger.Log        *)
(***************************************************************************)
NowTimes == {2}
CustomTimes == {1}

\* fmt.Sprint / Sprintf / Sprintln of the arguments
messageOf(style, text) == IF style = "Logln" THEN text \o <<"\n">> ELSE text

\* Entry.log on its value receiver: the copy it fills in before Format
logCopy(entry, l, msg, now, reportCaller, cv, stack) ==
    [entry EXCEPT
        !.Time = IF entry.Time = ZeroTime THEN now ELSE entry.Time,
        !.Level = l,
        !.Message = msg,
        !.Caller = IF reportCaller THEN getCaller(callerInit(cv, stack), stack)
                   ELSE entry.Caller]

\* Entry.Log/Logf/Logln: the entry copy that reaches Entry.write, or None
\* when the entry has no logger or the level is not enabled
EntryLog(entry, minimum, l, msg, now, reportCaller, cv, stack) ==
    IF ~entry.Logger THEN None
    ELSE IF IsLevelEnabled(l, minimum)
    THEN logCopy(entry, l, msg, now, reportCaller, cv, stack)
    ELSE None

\* Logger.Log/Logf/Logln: gate, take an entry from the pool, Entry.Log on it
LoggerLog(minimum, l, msg, now, reportCaller, cv, stack) ==
    IF IsLevelEnabled(l, minimum)
    THEN EntryLog(NewEntry(TRUE), minimum, l, msg, now, reportCaller, cv, stack)
    ELSE None

\* Entry.write with a formatter and a sink that do not fail: the lines the
\* sink receives
entryWrite(e, f, reportCaller, iter) ==
    IF e = None THEN <<>> ELSE <<Format(f, e, reportCaller, iter)>>

\* the map iteration orders Format may see for the entry that reaches it
itersOf(e, reportCaller) ==
    IF e = None THEN {<<>>} ELSE FormatIters(e, reportCaller)

\* the package variables after a call: the Once runs when getCaller is reached
callerVarsAfter(cv, reached, reportCaller, stack) ==
    IF reached /\ reportCaller THEN callerInit(cv, stack) ELSE cv

(***************************************************************************)
(* Sequential operations on one Logger: setters, derivations, statements.  *)
(***************************************************************************)
NoCall == [op |-> "none"]

\* New(): Level Info, ReportCaller off, a TextFormatter with its zero value
LoggerInit ==
    /\ Level = InfoLevel
    /\ ReportCaller = FALSE
    /\ Formatter = TextFormatter(FALSE, FALSE)
    /\ callerVars = CallerVars0
    /\ exited = None
    /\ call = NoCall

\* the statement under construction starts from a fresh entry of the logger
ChainInit ==
    /\ cur = NewEntry(TRUE)
    /\ derived = 0

\* the observable state of a heap entry: its fields, with the map's contents
observe(ents, mps, e) ==
    [Data |-> mps[ents[e].Data], err |-> ents[e].err, Time |-> ents[e].Time,
     Level |-> ents[e].Level, Message |-> ents[e].Message]

\* NewEntry(logger) on the heap: one entry, with a map of its own
HeapInit ==
    /\ maps = <<EmptyParams>>
    /\ entries = <<[NewEntry(TRUE) EXCEPT !.Data = 1]>>
    /\ born = <<observe(entries, maps, 1)>>

Procs == 1..NumProcs

\* no goroutine has started; both pools are empty and the mutex is free
ConcInit ==
    /\ pc = [p \in Procs |-> "idle"]
    /\ done = [p \in Procs |-> 0]
    /\ stmt = [p \in Procs |-> TraceLevel]
    /\ local = [p \in Procs |-> None]
    /\ mu = 0
    /\ muDisabled = FALSE
    /\ sink = <<>>
    /\ buffers = <<>>
    /\ bufferPool = {}
    /\ hbuf = [p \in Procs |-> 0]
    /\ pooled = <<>>
    /\ entryPool = {}
    /\ hent = [p \in Procs |-> 0]
    /\ issued = {}
    /\ outIsStderr = TRUE
    /\ userFormatter = FALSE
    /\ diag = <<>>
    /\ failed = {}
    /\ op = [p \in Procs |-> "none"]
    /\ gets = [p \in Procs |-> 0]
    /\ puts = [p \in Procs |-> 0]
    /\ ret = [p \in Procs |-> None]

\* Logger.SetNoLock
SetNoLock ==
    /\ exited = None
    /\ muDisabled' = TRUE
    /\ call' = NoCall
    /\ UNCHANGED <<loggerVars, chainVars, heapVars>>
    /\ UNCHANGED <<pc, done, stmt, local, mu, sink, buffers, bufferPool, hbuf,
                   pooled, entryPool, hent, issued, faultVars, poolVars>>

\* Logger.SetLevel
SetLevel(level) ==
    /\ exited = None
    /\ Level' = level
    /\ call' = NoCall
    /\ UNCHANGED <<heapVars, concVars, ReportCaller, Formatter, callerVars, exited, cur, derived>>

\* Logger.SetReportCaller
SetReportCaller(reportCaller) ==
    /\ exited = None
    /\ ReportCaller' = reportCaller
    /\ call' = NoCall
    /\ UNCHANGED <<heapVars, concVars, Level, Formatter, callerVars, exited, cur, derived>>

\* Logger.SetFormatter with a TextFormatter
SetFormatter(formatter) ==
    /\ exited = None
    /\ Formatter' = formatter
    /\ call' = NoCall
    /\ UNCHANGED <<heapVars, concVars, Level, ReportCaller, callerVars, exited, cur, derived>>

\* NewEntry(nil): an entry with no logger attached
NewDetachedEntry ==
    /\ exited = None
    /\ derived = 0
    /\ cur.Logger
    /\ cur' = NewEntry(FALSE)
    /\ call' = NoCall
    /\ UNCHANGED <<heapVars, concVars, Level, ReportCaller, Formatter, callerVars, exited, derived>>

\* Entry.WithParams (and Logger.WithParams, on a fresh entry) on cur
DoWithParams(params) ==
    /\ exited = None
    /\ derived < MaxDerive
    /\ \E iter \in Perms(DOMAIN params) :
        /\ cur' = WithParams(cur, params, iter)
        /\ call' = [op |-> "WithParams", recv |-> cur, params |-> params,
                    iter |-> iter, result |-> cur']
    /\ derived' = derived + 1
    /\ UNCHANGED <<heapVars, concVars, Level, ReportCaller, Formatter, callerVars, exited>>

\* Entry.WithTime on cur
DoWithTime(t) ==
    /\ exited = None
    /\ derived < MaxDerive
    /\ cur' = WithTime(cur, t)
    /\ derived' = derived + 1
    /\ call' = NoCall
    /\ UNCHANGED <<heapVars, concVars, Level, ReportCaller, Formatter, callerVars, exited>>

\* the exit code a call through a Fatal method ends the process with (None:
\* the call returns): Logger.Fatal* exit always, Entry.Fatal* return early
\* when the entry has no logger
ExitCode(code) == [code |-> code]

exitOf(recv, via, entry) ==
    IF via # "Fatal" THEN None
    ELSE IF recv = "Logger" THEN ExitCode(1)
    ELSE IF ~entry.Logger THEN None
    ELSE ExitCode(1)

\* One log statement, start to end: Log/Logf/Logln (via = "direct") or a level
\* method, on the Logger or on the entry cur.
Statement(recv, style, via, l, text, depth) ==
    /\ exited = None
    /\ via # "direct" => l = methodLevel(via)
    /\ recv = "Logger" => derived = 0 /\ cur.Logger
    /\ LET stack == StackOf(recv, style, via, depth)
           msg == messageOf(style, text)
       IN  \E now \in NowTimes :
           LET e == IF recv = "Logger"
                    THEN LoggerLog(Level, l, msg, now, ReportCaller,
                                   callerVars, stack)
                    ELSE EntryLog(cur, Level, l, msg, now, ReportCaller,
                                  callerVars, stack)
           IN  /\ \E iter \in itersOf(e, ReportCaller) :
                    call' = [op |-> "Statement", recv |-> recv, style |-> style,
                             via |-> via, level |-> l, minimum |-> Level,
                             attached |-> cur.Logger, on |-> cur, entry |-> e,
                             stack |-> stack,
                             writes |-> entryWrite(e, Formatter, ReportCaller, iter),
                             exit |-> exitOf(recv, via, cur)]
               /\ callerVars' = callerVarsAfter(callerVars, e # None,
                                                ReportCaller, stack)
               /\ exited' = exitOf(recv, via, cur)
    /\ cur' = NewEntry(TRUE)
    /\ derived' = 0
    /\ UNCHANGED <<heapVars, concVars, Level, ReportCaller, Formatter>>

\* Entry.String on cur
DoString ==
    /\ exited = None
    /\ \E iter \in FormatIters(cur, ReportCaller) :
        call' = [op |-> "String", on |-> cur,
                 text |-> IF cur.Logger
                          THEN <<Format(Formatter, cur, ReportCaller, iter)>>
                          ELSE <<>>]
    /\ UNCHANGED <<heapVars, concVars, Level, ReportCaller, Formatter, callerVars, exited, cur, derived>>

Vias == {"direct"} \cup LevelMethods

(***************************************************************************)
(* SpecGate: the level gate, under every minimum level and call style.     *)
(***************************************************************************)
GateTexts == {Str("x")}
GateParams == {[k \in {"a"} |-> StringValue(Str("va"))]}

GateNext ==
    \/ \E level \in Levels : SetLevel(level)
    \/ SetNoLock
    \/ NewDetachedEntry
    \/ \E params \in GateParams : DoWithParams(params)
    \/ \E t \in CustomTimes : DoWithTime(t)
    \/ \E recv \in Receivers, style \in Styles, via \in Vias, l \in Levels,
          text \in GateTexts :
            Statement(recv, style, via, l, text, 0)

GateInit == LoggerInit /\ ChainInit /\ HeapInit /\ ConcInit
SpecGate == GateInit /\ [][GateNext]_vars

(***************************************************************************)
(* SpecFormat: statements whose entries carry user fields under reserved   *)
(* and ordinary keys, rendered under every formatter configuration.        *)
(***************************************************************************)
ReservedKeys == {timeKey, msgKey, levelKey, errKey, funcKey, fileKey}
FormatKeys == ReservedKeys \cup {"a", paramsPrefix \o timeKey}

\* the value a field keyed k is given: its own for every key, so that a pair's
\* value tells which field it came from
userValue(k) == StringValue(<<"v", k>>)

\* the values key "a" is also given: one that needs quoting, the empty
\* string, and a function, which WithParams rejects
OtherValues == {StringValue(<<"x", " ", "y">>), StringValue(EmptyStr), FuncValue}

\* WithParam(k, v): the one-field maps it passes to WithParams
FormatParams ==
    {[x \in {k} |-> userValue(k)] : k \in FormatKeys}
    \cup {[x \in {"a"} |-> v] : v \in OtherValues}

FormatTexts == {EmptyStr, Str("x")}

FormatNext ==
    \/ \E rc \in BOOLEAN : SetReportCaller(rc)
    \/ \E dt, ds \in BOOLEAN : SetFormatter(TextFormatter(dt, ds))
    \/ \E params \in FormatParams : DoWithParams(params)
    \/ \E via \in {"direct", "Info"}, text \in FormatTexts :
        Statement("Entry", "Log", via, InfoLevel, text, 0)
    \/ DoString

FormatInit == LoggerInit /\ ChainInit /\ HeapInit /\ ConcInit
SpecFormat == FormatInit /\ [][FormatNext]_vars

(***************************************************************************)
(* What the last call rendered.                                            *)
(***************************************************************************)
IsStatement == call.op = "Statement"
Emitted == IsStatement /\ call.writes # <<>>
Rendered == Emitted \/ (call.op = "String" /\ call.text # <<>>)
renderedLine == IF IsStatement THEN call.writes[1] ELSE call.text[1]
renderedEntry == IF IsStatement THEN call.entry ELSE call.on

pairsKeyed(ln, k) == {i \in 1..Len(ln) : ln[i].key = k}
hasPair(ln, k, v) == \E i \in 1..Len(ln) : ln[i].key = k /\ ln[i].value = v

\* the reserved keys in force for an entry: func and file only with a caller
keysInForce(e) ==
    {timeKey, msgKey, levelKey, errKey}
    \cup (IF HasCaller(e, ReportCaller) THEN {funcKey, fileKey} ELSE {})

\* the value the formatter computes for a reserved key
computedValue(k, e) ==
    CASE k = timeKey -> formatTime(e.Time)
      [] k = msgKey -> e.Message
      [] k = levelKey -> LevelString(e.Level)
      [] k = errKey -> e.err
      [] k = funcKey -> e.Caller.Function
      [] k = fileKey -> fileValOf(e.Caller)

\* the text a value is rendered as
shown(text) == IF needsQuoting(text) THEN Quote(text) ELSE text

(***************************************************************************)
(* C1: with minimum level M installed, a Log, Logf or Logln call at level  *)
(* L on the Logger or on an entry derived from it writes exactly one line  *)
(* to the sink when L >= M and nothing when L < M.                         *)
(***************************************************************************)
C1_LevelGate ==
    (IsStatement /\ call.attached) =>
        IF call.level >= call.minimum
        THEN Len(call.writes) = 1
        ELSE call.writes = <<>>

\* an entry statement right at the minimum is written, through Logln
C1_Witness ==
    /\ IsStatement /\ call.recv = "Entry" /\ call.style = "Logln"
    /\ call.on.Data # EmptyParams
    /\ call.minimum = ErrorLevel /\ call.level = ErrorLevel
    /\ Len(call.writes) = 1

(***************************************************************************)
(* C2: every Fatal, Fatalf and Fatalln call, on the Logger or on an entry  *)
(* with a logger, writes its record to the sink whatever the minimum level *)
(* is, and then ends the process with exit code 1.                         *)
(***************************************************************************)
C2_FatalAlwaysEmits ==
    (IsStatement /\ call.via = "Fatal" /\ call.attached) =>
        /\ Len(call.writes) = 1
        /\ exited = ExitCode(1)

(***************************************************************************)
(* C9: Level.String gives each of the six defined levels its own lowercase *)
(* token and every other value "unknown", so a line emitted at a defined   *)
(* level never renders level=unknown.                                      *)
(***************************************************************************)
levelToken(l) ==
    CASE l = TraceLevel -> Str("trace")
      [] l = DebugLevel -> Str("debug")
      [] l = InfoLevel -> Str("info")
      [] l = WarnLevel -> Str("warn")
      [] l = ErrorLevel -> Str("error")
      [] l = FatalLevel -> Str("fatal")
      [] OTHER -> Str("unknown")

C9_LevelTokens ==
    Emitted => hasPair(call.writes[1], levelKey, levelToken(call.level))

(***************************************************************************)
(* C5: when the entry carries a user field under a reserved key K in       *)
(* force, the rendered line has at most one pair keyed K, that pair holds  *)
(* the value the formatter computes, and the user's value is rendered      *)
(* under "params"+K.                                                       *)
(***************************************************************************)
C5_ReservedKeyCollision ==
    Rendered =>
        \A k \in keysInForce(renderedEntry) \cap DOMAIN renderedEntry.Data :
            /\ Cardinality(pairsKeyed(renderedLine, k)) <= 1
            /\ \A i \in pairsKeyed(renderedLine, k) :
                renderedLine[i].value = shown(computedValue(k, renderedEntry))
            /\ hasPair(renderedLine, paramsPrefix \o k,
                       shown(renderedEntry.Data[k].s))

\* an emitted line of an entry with user fields keyed level and func, the
\* caller reported
C5_Witness ==
    /\ Emitted
    /\ HasCaller(call.entry, ReportCaller)
    /\ DOMAIN call.entry.Data = {levelKey, funcKey}
    /\ Cardinality(pairsKeyed(call.writes[1], levelKey)) = 1
    /\ Cardinality(pairsKeyed(call.writes[1], funcKey)) = 1

(***************************************************************************)
(* C6: every user field (k, v) of the entry appears in the rendered line   *)
(* with its own value v, under k when k is not a reserved key in force and *)
(* under "params"+k when it is.                                            *)
(***************************************************************************)
C6_UserFieldsPreserved ==
    Rendered =>
        \A k \in DOMAIN renderedEntry.Data :
            hasPair(renderedLine,
                    IF k \in keysInForce(renderedEntry)
                    THEN paramsPrefix \o k ELSE k,
                    shown(renderedEntry.Data[k].s))

(***************************************************************************)
(* C8 as stated: an entry with a user field keyed "time" renders an error= *)
(* pair (a collision diagnostic).                                          *)
(***************************************************************************)
C8_TimeFieldRendersError ==
    (Rendered /\ timeKey \in DOMAIN renderedEntry.Data) =>
        pairsKeyed(renderedLine, errKey) # {}

(***************************************************************************)
(* C8 as amended: adding a field keyed "time" with a value that is not a   *)
(* function adds nothing to the entry's error string; the rendered line    *)
(* holds the user's value under "paramstime" and, unless timestamps are    *)
(* disabled, the entry's timestamp under "time"; an error= pair is present *)
(* exactly when the entry's error string is not empty, and holds it.       *)
(***************************************************************************)
C8_TimeFieldRenamedOnly ==
    /\ (call.op = "WithParams" /\ timeKey \in DOMAIN call.params
        /\ \A k \in DOMAIN call.params : ~isErrField(call.params[k])) =>
            call.result.err = call.recv.err
    /\ (Rendered /\ timeKey \in DOMAIN renderedEntry.Data) =>
        /\ hasPair(renderedLine, paramsPrefix \o timeKey,
                   shown(renderedEntry.Data[timeKey].s))
        /\ ~Formatter.DisableTimestamp =>
                hasPair(renderedLine, timeKey,
                        shown(formatTime(renderedEntry.Time)))
        /\ pairsKeyed(renderedLine, errKey) # {} <=> renderedEntry.err # EmptyStr
        /\ \A i \in pairsKeyed(renderedLine, errKey) :
                renderedLine[i].value = shown(renderedEntry.err)

\* WithParam("time", v).Log(Info, "x"): no error pair, the field renamed
C8_Witness ==
    /\ Emitted
    /\ DOMAIN call.entry.Data = {timeKey}
    /\ call.entry.err = EmptyStr
    /\ call.entry.Message = Str("x")
    /\ pairsKeyed(call.writes[1], errKey) = {}
    /\ hasPair(call.writes[1], timeKey, shown(formatTime(call.entry.Time)))
    /\ hasPair(call.writes[1], paramsPrefix \o timeKey, <<"v", timeKey>>)

(***************************************************************************)
(* SpecCaller: statements of every receiver, style and level method, from  *)
(* application stacks of several depths, with caller reporting switchable. *)
(***************************************************************************)
CallerNext ==
    \/ \E rc \in BOOLEAN : SetReportCaller(rc)
    \/ \E level \in {TraceLevel, InfoLevel} : SetLevel(level)
    \/ \E params \in GateParams : DoWithParams(params)
    \/ \E recv \in Receivers, style \in Styles, via \in Vias,
          l \in DefinedLevels, depth \in 0..MaxUserDepth :
            Statement(recv, style, via, l, Str("x"), depth)

CallerInit == LoggerInit /\ ChainInit /\ HeapInit /\ ConcInit
SpecCaller == CallerInit /\ [][CallerNext]_vars

\* the library's own package, as getPackageName reduces its functions' names
libraryPackage == getPackageName(LibFunc("Entry", "log"))

\* the first frame past the knownFrames skipped ones, among the next
\* maxCallerDepth, whose package is not the library's
foreignIndexes(stack) ==
    {i \in (knownFrames + 1)..(knownFrames + maxCallerDepth) :
        i <= Len(stack) /\ getPackageName(stack[i].Function) # libraryPackage}

firstForeignFrame(stack) ==
    IF foreignIndexes(stack) = {} THEN NoCaller
    ELSE stack[CHOOSE i \in foreignIndexes(stack) :
                    \A j \in foreignIndexes(stack) : i <= j]

(***************************************************************************)
(* C10: getCaller returns the first frame past the skipped frames whose    *)
(* package differs from the library's own package, nothing when there is   *)
(* none within the 25-frame bound, and never a frame of the library.       *)
(***************************************************************************)
C10_CallerOutsideLibrary ==
    (Emitted /\ ReportCaller) =>
        /\ call.entry.Caller = firstForeignFrame(call.stack)
        /\ call.entry.Caller # NoCaller =>
            getPackageName(call.entry.Caller.Function) # libraryPackage

(***************************************************************************)
(* Entries as heap objects: a derived entry is a new object; its field map *)
(* is a new map (WithParams) or the receiver's own map (WithTime).         *)
(***************************************************************************)
\* an entry's value: the heap entry with its map's contents in place of the
\* reference
entryValue(ents, mps, e) == [ents[e] EXCEPT !.Data = mps[ents[e].Data]]

\* Format working on the receiver's own map instead of a copy
formatAlias(mps, ref) == [maps |-> mps, ref |-> ref]

\* data := make(Params); for k, v := range entry.Data { data[k] = v }
formatCopy(mps, ref) == [maps |-> Append(mps, mps[ref]), ref |-> Len(mps) + 1]

\* the maps of the heap once Format has returned: fixParamsClash has rewritten
\* the map Format made for itself, which nothing refers to any more
formatHeapEffect(mps, ref, hasCaller) ==
    LET c == formatCopy(mps, ref)
        fixed == [c.maps EXCEPT ![c.ref] = fixParamsClash(c.maps[c.ref], hasCaller)]
    IN  SubSeq(fixed, 1, Len(mps))

\* Entry.WithParams on heap entry e
HWithParams(e, params) ==
    /\ Len(entries) < MaxEntries
    /\ \E iter \in Perms(DOMAIN params) :
        LET res == withParamsLoop(entries[e].err,
                                  [data |-> maps[entries[e].Data],
                                   err |-> entries[e].err],
                                  params, iter, 1)
        IN  /\ maps' = Append(maps, res.data)
            /\ entries' = Append(entries, [entries[e] EXCEPT
                                              !.Data = Len(maps) + 1,
                                              !.err = res.err])
            /\ born' = Append(born, observe(entries', maps', Len(entries')))
            /\ call' = [op |-> "WithParams",
                        recv |-> entryValue(entries, maps, e),
                        params |-> params, iter |-> iter,
                        result |-> entryValue(entries', maps', Len(entries'))]
    /\ UNCHANGED <<loggerVars, chainVars, concVars>>

\* Entry.WithTime on heap entry e: the new entry shares e's map
HWithTime(e, t) ==
    /\ Len(entries) < MaxEntries
    /\ entries' = Append(entries, [entries[e] EXCEPT !.Time = t])
    /\ born' = Append(born, observe(entries', maps, Len(entries')))
    /\ call' = [op |-> "WithTime", e |-> e]
    /\ UNCHANGED <<maps, loggerVars, chainVars, concVars>>

\* Entry.Log on heap entry e: Entry.log works on a copy of the entry (value
\* receiver), Format on a copy of its map
HLog(e, l, text) ==
    /\ \E now \in NowTimes :
        LET stack == StackOf("Entry", "Log", "direct", 0)
            ev == EntryLog(entryValue(entries, maps, e), Level, l, text, now,
                           ReportCaller, callerVars, stack)
        IN  /\ \E iter \in itersOf(ev, ReportCaller) :
                call' = [op |-> "Log", e |-> e, level |-> l, entry |-> ev,
                         writes |-> entryWrite(ev, Formatter, ReportCaller, iter)]
            /\ maps' = IF ev = None THEN maps
                       ELSE formatHeapEffect(maps, entries[e].Data,
                                             HasCaller(ev, ReportCaller))
    /\ UNCHANGED <<entries, born, loggerVars, chainVars, concVars>>

\* Entry.String on heap entry e
HString(e) ==
    /\ \E iter \in FormatIters(entryValue(entries, maps, e), ReportCaller) :
        call' = [op |-> "String", on |-> entryValue(entries, maps, e),
                 e |-> e,
                 text |-> <<Format(Formatter, entryValue(entries, maps, e),
                                   ReportCaller, iter)>>]
    /\ maps' = formatHeapEffect(maps, entries[e].Data,
                                HasCaller(entryValue(entries, maps, e),
                                          ReportCaller))
    /\ UNCHANGED <<entries, born, loggerVars, chainVars, concVars>>

(***************************************************************************)
(* SpecEntry: derivations, emissions and renderings on a heap of entries.  *)
(***************************************************************************)
EntryKeys == {"a", "b", timeKey}

\* "a" holds a string or a function, "b" a pointer to a function
entryValues(k) ==
    IF k = "a" THEN {userValue(k), FuncValue}
    ELSE IF k = "b" THEN {PtrFuncValue}
    ELSE {userValue(k)}

EntryParams ==
    {p \in UNION {[ks -> UNION {entryValues(k) : k \in ks}] :
                    ks \in {x \in SUBSET EntryKeys :
                                Cardinality(x) \in 1..MaxFields}} :
        \A k \in DOMAIN p : p[k] \in entryValues(k)}

EntryNext ==
    \/ \E e \in 1..Len(entries), params \in EntryParams : HWithParams(e, params)
    \/ \E e \in 1..Len(entries), t \in CustomTimes : HWithTime(e, t)
    \/ \E e \in 1..Len(entries), l \in {DebugLevel, InfoLevel} :
        HLog(e, l, Str("x"))
    \/ \E e \in 1..Len(entries) : HString(e)

EntryInit == LoggerInit /\ ChainInit /\ HeapInit /\ ConcInit
SpecEntry == EntryInit /\ [][EntryNext]_vars

(***************************************************************************)
(* C4: no derivation, emission or rendering changes an existing entry: its *)
(* field map, error string, timestamp, level and message stay what they    *)
(* were when the entry was made.                                           *)
(***************************************************************************)
C4_EntriesNeverMutated ==
    \A e \in 1..Len(entries) : observe(entries, maps, e) = born[e]

\* an entry that shares its map with the entry it was derived from (WithTime)
\* has been emitted, its field keyed "time" renamed for the line
C4_Witness ==
    /\ Len(entries) = 3
    /\ entries[3].Data = entries[2].Data
    /\ timeKey \in DOMAIN maps[entries[2].Data]
    /\ call.op = "Log" /\ call.e = 3 /\ call.writes # <<>>
    /\ pairsKeyed(call.writes[1], paramsPrefix \o timeKey) # {}

(***************************************************************************)
(* C7: WithParams leaves every function-typed field out of the derived     *)
(* entry's field map, and the derived entry's error string is the          *)
(* receiver's followed by one diagnostic per rejected key, comma-joined,   *)
(* none of them lost.                                                      *)
(***************************************************************************)
RECURSIVE joinDiagnostics(_, _)
joinDiagnostics(err, ks) ==
    IF ks = <<>> THEN err
    ELSE joinDiagnostics(IF err = EmptyStr THEN cannotAdd(Head(ks))
                         ELSE err \o <<",", " ">> \o cannotAdd(Head(ks)),
                         Tail(ks))

C7_RejectedFieldsAccumulate ==
    call.op = "WithParams" =>
        /\ \A k \in DOMAIN call.params :
            isErrField(call.params[k]) =>
                (k \in DOMAIN call.result.Data =>
                    /\ k \in DOMAIN call.recv.Data
                    /\ call.result.Data[k] = call.recv.Data[k])
        /\ call.result.err =
            joinDiagnostics(call.recv.err,
                            SelectSeq(call.iter,
                                      LAMBDA k : isErrField(call.params[k])))

(***************************************************************************)
(* Goroutines logging on one Logger: Logger.Log step by step.              *)
(***************************************************************************)
\* the statement goroutine p is issuing or will issue next
stmtId(p) == <<p, done[p] + 1>>

\* every statement logs a message of its own
stmtMessage(id) == Str("m" \o ToString(id[1]) \o "_" \o ToString(id[2]))

\* a lock that never waits for the holder to unlock
lockNeverWaits(disabled, holder) == TRUE

\* mutexWrap.lock returns: at once when disabled, else when the mutex is free
lockReturns(disabled, holder) == disabled \/ holder = 0

concFrame == <<loggerVars, chainVars, call, heapVars, faultVars, poolVars>>

\* sync.Pool.Get: an item resting in the pool, or none when it is empty. The
\* items at rest are interchangeable (entries are released with empty Data,
\* buffers are Reset on Get), so the least one stands for any of them
poolGet(pool) == IF pool = {} THEN 0 ELSE CHOOSE x \in pool : \A y \in pool : x <= y

\* Logger.Log, Entry.Log and Entry.log up to entry.write(): the gate, an entry
\* from entryPool (or a new one), the gate again, the copy of the entry filled
\* in, a buffer from bufferPool (or a new one) reset and attached
LogCall(p, l) ==
    /\ pc[p] = "idle"
    /\ done[p] < MaxStmts
    /\ IF IsLevelEnabled(l, Level)
       THEN LET e == poolGet(entryPool)
                b == poolGet(bufferPool)
                he == IF e = 0 THEN Len(pooled) + 1 ELSE e
                hb == IF b = 0 THEN Len(buffers) + 1 ELSE b
                got == IF e = 0 THEN Append(pooled, NewEntry(TRUE)) ELSE pooled
            IN  /\ pooled' = got
                /\ entryPool' = entryPool \ {e}
                /\ hent' = [hent EXCEPT ![p] = he]
                /\ buffers' = IF b = 0 THEN Append(buffers, <<>>)
                              ELSE [buffers EXCEPT ![b] = <<>>]
                /\ bufferPool' = bufferPool \ {b}
                /\ hbuf' = [hbuf EXCEPT ![p] = hb]
                /\ \E now \in NowTimes :
                     local' = [local EXCEPT ![p] =
                                 logCopy(got[he], l, stmtMessage(stmtId(p)), now,
                                         ReportCaller, callerVars,
                                         StackOf("Logger", "Log", "direct", 0))]
                /\ pc' = [pc EXCEPT ![p] = "lock"]
                /\ stmt' = [stmt EXCEPT ![p] = l]
                /\ issued' = issued \cup {stmtId(p)}
                /\ done' = done
       ELSE /\ done' = [done EXCEPT ![p] = @ + 1]
            /\ UNCHANGED <<pc, stmt, issued, pooled, entryPool, hent, local,
                           buffers, bufferPool, hbuf>>
    /\ UNCHANGED <<mu, muDisabled, sink>>
    /\ UNCHANGED concFrame

\* entry.Logger.mu.lock()
Lock(p) ==
    /\ pc[p] = "lock"
    /\ lockReturns(muDisabled, mu)
    /\ mu' = IF muDisabled THEN mu ELSE p
    /\ pc' = [pc EXCEPT ![p] = "format"]
    /\ UNCHANGED <<done, stmt, local, muDisabled, sink, buffers, bufferPool,
                   hbuf, pooled, entryPool, hent, issued>>
    /\ UNCHANGED concFrame

\* Formatter.Format(entry): the line is built in the entry's buffer
FormatStep(p) ==
    /\ pc[p] = "format"
    /\ \E iter \in FormatIters(local[p], ReportCaller) :
        buffers' = [buffers EXCEPT ![hbuf[p]] =
                        @ \o lineBytes(Format(Formatter, local[p],
                                              ReportCaller, iter), 1)]
    /\ pc' = [pc EXCEPT ![p] = "write"]
    /\ UNCHANGED <<done, stmt, local, mu, muDisabled, sink, bufferPool, hbuf,
                   pooled, entryPool, hent, issued>>
    /\ UNCHANGED concFrame

\* Out.Write(formattedLog): the sink takes the bytes in two parts, everything
\* before the final newline first
WriteHead(p) ==
    /\ pc[p] = "write"
    /\ LET bytes == buffers[hbuf[p]]
       IN  sink' = Append(sink, [stmt |-> stmtId(p),
                                 bytes |-> SubSeq(bytes, 1, Len(bytes) - 1)])
    /\ pc' = [pc EXCEPT ![p] = "writeTail"]
    /\ UNCHANGED <<done, stmt, local, mu, muDisabled, buffers, bufferPool,
                   hbuf, pooled, entryPool, hent, issued>>
    /\ UNCHANGED concFrame

WriteTail(p) ==
    /\ pc[p] = "writeTail"
    /\ LET bytes == buffers[hbuf[p]]
       IN  sink' = Append(sink, [stmt |-> stmtId(p),
                                 bytes |-> SubSeq(bytes, Len(bytes), Len(bytes))])
    /\ pc' = [pc EXCEPT ![p] = "unlock"]
    /\ UNCHANGED <<done, stmt, local, mu, muDisabled, buffers, bufferPool,
                   hbuf, pooled, entryPool, hent, issued>>
    /\ UNCHANGED concFrame

\* the deferred entry.Logger.mu.unlock()
Unlock(p) ==
    /\ pc[p] = "unlock"
    /\ mu' = IF muDisabled THEN mu ELSE 0
    /\ pc' = [pc EXCEPT ![p] = "release"]
    /\ UNCHANGED <<done, stmt, local, muDisabled, sink, buffers, bufferPool,
                   hbuf, pooled, entryPool, hent, issued>>
    /\ UNCHANGED concFrame

\* the returns: entry.Buffer = nil and the deferred bufferPool.Put(buffer) of
\* Entry.log, then the deferred logger.releaseEntry(entry) of Logger.Log
Release(p) ==
    /\ pc[p] = "release"
    /\ bufferPool' = bufferPool \cup {hbuf[p]}
    /\ hbuf' = [hbuf EXCEPT ![p] = 0]
    /\ local' = [local EXCEPT ![p] = None]
    /\ pooled' = [pooled EXCEPT ![hent[p]].Data = EmptyParams]
    /\ entryPool' = entryPool \cup {hent[p]}
    /\ hent' = [hent EXCEPT ![p] = 0]
    /\ done' = [done EXCEPT ![p] = @ + 1]
    /\ pc' = [pc EXCEPT ![p] = "idle"]
    /\ UNCHANGED <<stmt, mu, muDisabled, sink, buffers, issued>>
    /\ UNCHANGED concFrame

(***************************************************************************)
(* SpecConc: NumProcs goroutines, MaxStmts statements each, at a level the *)
(* logger suppresses (Debug) or lets through (Info), on a Logger whose     *)
(* SetNoLock is never called.                                              *)
(***************************************************************************)
ConcNext ==
    \/ \E p \in Procs, l \in {DebugLevel, InfoLevel} : LogCall(p, l)
    \/ \E p \in Procs : Lock(p)
    \/ \E p \in Procs : FormatStep(p)
    \/ \E p \in Procs : WriteHead(p)
    \/ \E p \in Procs : WriteTail(p)
    \/ \E p \in Procs : Unlock(p)
    \/ \E p \in Procs : Release(p)

ConcSpecInit == LoggerInit /\ ChainInit /\ HeapInit /\ ConcInit
SpecConc == ConcSpecInit /\ [][ConcNext]_vars

(***************************************************************************)
(* Claims about concurrent statements.                                     *)
(***************************************************************************)
\* the goroutines between mu.lock() returning and mu.unlock() returning
inCritical == {p \in Procs : pc[p] \in {"format", "write", "writeTail", "unlock"}}

\* the line a statement renders to when nothing else touches its buffer
lineOf(id, l) ==
    lineBytes(Format(Formatter,
                     logCopy(NewEntry(TRUE), l, stmtMessage(id), 2,
                             ReportCaller, callerVars,
                             StackOf("Logger", "Log", "direct", 0)),
                     ReportCaller, <<>>), 1)

\* the statements the gate let through that have returned
finished == {id \in issued : id[2] <= done[id[1]]}

\* the part of the sink the i-th line occupies
lineAt(i) == sink[2 * i - 1].bytes \o sink[2 * i].bytes

\* C3: with the guard enabled (SetNoLock never called), at most one goroutine
\* is between acquiring the guard and releasing it after Format+Write; what
\* the sink has received is a sequence of complete newline-terminated lines,
\* each the line of one statement with no bytes of another, followed at most
\* by the head of the line whose writer holds the guard; every statement
\* that went through the gate and returned has exactly one line in the sink,
\* so N goroutines issuing M enabled statements each leave exactly N*M lines.
C3_WholeLinesUnderGuard ==
    ~muDisabled =>
        /\ Cardinality(inCritical) <= 1
        /\ \A i \in 1..(Len(sink) \div 2) :
            /\ sink[2 * i - 1].stmt = sink[2 * i].stmt
            /\ sink[2 * i].bytes = <<"\n">>
            /\ \E l \in DefinedLevels :
                 IsLevelEnabled(l, Level) /\ lineAt(i) = lineOf(sink[2 * i].stmt, l)
            /\ \A j \in 1..(Len(sink) \div 2) :
                 sink[2 * j].stmt = sink[2 * i].stmt => j = i
        /\ Len(sink) % 2 = 1 =>
             \E p \in Procs : pc[p] = "writeTail" /\ sink[Len(sink)].stmt = stmtId(p)
        /\ \A id \in finished :
             \E i \in 1..(Len(sink) \div 2) : sink[2 * i].stmt = id
        /\ (\A p \in Procs : done[p] = MaxStmts) =>
             Len(sink) = 2 * Cardinality(issued)

\* every goroutine has issued all its statements, each of them enabled, and
\* the sink holds the N*M lines
C3_Witness ==
    /\ ~muDisabled
    /\ \A p \in Procs : done[p] = MaxStmts
    /\ Cardinality(issued) = NumProcs * MaxStmts
    /\ Len(sink) = 2 * NumProcs * MaxStmts
    /\ \E i, j \in 1..Len(sink) : sink[i].stmt[1] # sink[j].stmt[1]

(***************************************************************************)
(* Failing formatters and sinks.  Entry.write reports a Format or Write    *)
(* error with fmt.Fprintf(os.Stderr, ...) and returns; its unlock and      *)
(* Entry.log's bufferPool.Put are deferred.                                *)
(***************************************************************************)
\* the bytes of the two diagnostics of Entry.write
diagBytes(kind) ==
    IF kind = "format" THEN <<"Failed to obtain reader, ", "err", "\n">>
    ELSE <<"Failed to write to log, ", "err", "\n">>

\* an error path that returns without running the unlock
onErrorStillLocked == "release"

\* where Entry.write goes after reporting an error: to its deferred unlock
onError == "unlock"

\* fmt.Fprintf(os.Stderr, ...): the diagnostic reaches os.Stderr, which is
\* the sink itself while Logger.Out is os.Stderr
reportError(p, kind) ==
    /\ diag' = Append(diag, [stmt |-> stmtId(p), kind |-> kind,
                             toSink |-> outIsStderr])
    /\ failed' = failed \cup {[stmt |-> stmtId(p), kind |-> kind]}

\* Logger.SetOutput, under the guard
SetOutput(toStderr) ==
    /\ lockReturns(muDisabled, mu)
    /\ outIsStderr' = toStderr
    /\ UNCHANGED <<pc, done, stmt, local, mu, muDisabled, sink, buffers,
                   bufferPool, hbuf, pooled, entryPool, hent, issued,
                   userFormatter, diag, failed, poolVars>>
    /\ UNCHANGED <<loggerVars, chainVars, call, heapVars>>

\* Logger.SetFormatter with a user's Formatter (or back to the TextFormatter),
\* under the guard
SetUserFormatter(user) ==
    /\ lockReturns(muDisabled, mu)
    /\ userFormatter' = user
    /\ UNCHANGED <<pc, done, stmt, local, mu, muDisabled, sink, buffers,
                   bufferPool, hbuf, pooled, entryPool, hent, issued,
                   outIsStderr, diag, failed, poolVars>>
    /\ UNCHANGED <<loggerVars, chainVars, call, heapVars>>

\* Formatter.Format(entry) returns an error, having left bytes in the buffer:
\* the diagnostic is printed and nothing is handed to Out.Write
FormatFail(p) ==
    /\ pc[p] = "format"
    /\ userFormatter
    /\ Len(diag) < MaxFailures
    /\ buffers' = [buffers EXCEPT ![hbuf[p]] = @ \o <<"partial">>]
    /\ reportError(p, "format")
    /\ sink' = IF outIsStderr
               THEN Append(sink, [stmt |-> stmtId(p), bytes |-> diagBytes("format")])
               ELSE sink
    /\ pc' = [pc EXCEPT ![p] = onError]
    /\ UNCHANGED <<done, stmt, local, mu, muDisabled, bufferPool, hbuf, pooled,
                   entryPool, hent, issued, outIsStderr, userFormatter, poolVars>>
    /\ UNCHANGED <<loggerVars, chainVars, call, heapVars>>

\* Out.Write(formattedLog) returns an error, before any byte or after the
\* bytes before the newline: the diagnostic is printed
WriteFail(p) ==
    /\ pc[p] \in {"write", "writeTail"}
    /\ Len(diag) < MaxFailures
    /\ reportError(p, "write")
    /\ sink' = IF outIsStderr
               THEN Append(sink, [stmt |-> stmtId(p), bytes |-> diagBytes("write")])
               ELSE sink
    /\ pc' = [pc EXCEPT ![p] = onError]
    /\ UNCHANGED <<done, stmt, local, mu, muDisabled, buffers, bufferPool, hbuf,
                   pooled, entryPool, hent, issued, outIsStderr, userFormatter,
                   poolVars>>
    /\ UNCHANGED <<loggerVars, chainVars, call, heapVars>>

(***************************************************************************)
(* SpecFail: the goroutines of SpecConc, every statement enabled, with a   *)
(* formatter and a sink that may fail.                                     *)
(***************************************************************************)
\* Logger.Info, while the run has statements left
FailLogCall(p) ==
    /\ Cardinality(issued) < MaxRunStmts
    /\ LogCall(p, InfoLevel)

FailNext ==
    \/ \E p \in Procs : FailLogCall(p)
    \/ \E p \in Procs : Lock(p)
    \/ \E p \in Procs : FormatStep(p)
    \/ \E p \in Procs : FormatFail(p)
    \/ \E p \in Procs : WriteHead(p)
    \/ \E p \in Procs : WriteTail(p)
    \/ \E p \in Procs : WriteFail(p)
    \/ \E p \in Procs : Unlock(p)
    \/ \E p \in Procs : Release(p)
    \/ \E toStderr \in BOOLEAN : SetOutput(toStderr)
    \/ \E user \in BOOLEAN : SetUserFormatter(user)

FailInit == LoggerInit /\ ChainInit /\ HeapInit /\ ConcInit
SpecFail == FailInit /\ [][FailNext]_vars

(***************************************************************************)
(* Claims about failing formatters and sinks.                              *)
(***************************************************************************)
\* the statements that have returned to their caller
returned == {id \in issued : id[2] <= done[id[1]]}

\* the statements whose Format, or whose Write, returned an error
failedIn(kind) == {f.stmt : f \in {g \in failed : g.kind = kind}}

\* the places of the sink holding something of statement id
sinkOf(id) == {i \in 1..Len(sink) : sink[i].stmt = id}

\* the diagnostics of statement id that went to the sink
diagToSink(id) == {i \in 1..Len(diag) : diag[i].stmt = id /\ diag[i].toSink}

\* what holds of the guard and the pools whether or not a statement failed:
\* the guard is held only by a goroutine inside Entry.write, a goroutine
\* outside a statement holds no buffer and no entry, with every goroutine
\* idle the guard is free and every buffer rests in its pool, and a statement
\* that returned without error has its whole line in the sink
failureLeavesLoggerUsable ==
    /\ \A p \in Procs : mu = p => p \in inCritical
    /\ mu = 0 => inCritical = {}
    /\ \A p \in Procs : pc[p] = "idle" => hbuf[p] = 0 /\ hent[p] = 0
    /\ (\A p \in Procs : pc[p] = "idle") =>
         /\ mu = 0
         /\ bufferPool = 1..Len(buffers)
         /\ returned = issued
    /\ \A id \in returned \ (failedIn("format") \cup failedIn("write")) :
         \E i \in 1..(Len(sink) - 1) :
            /\ sink[i].stmt = id /\ sink[i + 1].stmt = id
            /\ sink[i].bytes \o sink[i + 1].bytes = lineOf(id, InfoLevel)

\* C11 as stated: a Format or Write error leaves the guard released and the
\* buffer in its pool, later statements emit, and in the formatter-error
\* case nothing is written to the sink.
C11_FormatErrorWritesNothing ==
    /\ failureLeavesLoggerUsable
    /\ \A id \in failedIn("format") : sinkOf(id) = {}

\* C11: a Format or Write error leaves the guard released and the buffer in
\* its pool, the call returns and later statements of any goroutine emit; in
\* the formatter-error case Out.Write is not called, so nothing of the record
\* reaches the sink: what reaches it is the diagnostic printed to os.Stderr,
\* when Logger.Out is os.Stderr (the default), and nothing otherwise.
C11_FailureLeavesGuardFree ==
    /\ failureLeavesLoggerUsable
    /\ \A id \in failedIn("format") :
         /\ \A i \in sinkOf(id) : sink[i].bytes = diagBytes("format")
         /\ Cardinality(sinkOf(id)) = Cardinality(diagToSink(id))

\* a statement's Format failed while Out was another writer than os.Stderr,
\* the call returned leaving nothing in the sink, and another statement then
\* took the guard and emitted its line
C11_Witness ==
    /\ \A p \in Procs : pc[p] = "idle"
    /\ \E id \in failedIn("format") \cap returned :
         /\ sinkOf(id) = {}
         /\ \E other \in returned \ {id} :
              sinkOf(other) = {1, 2} /\ Len(sink) = 2

(***************************************************************************)
(* The entry pool under Logger.Log and Logger.WithParams/WithTime calls of *)
(* several goroutines: newEntry, the Entry method, the deferred            *)
(* releaseEntry.  Entry.log, guard included, is one step here.             *)
(***************************************************************************)
PoolOps == {"Log", "WithParams", "WithTime"}

\* the parameters of the WithParams calls: a field that is kept and one that
\* is rejected with a diagnostic
PoolParams == {[k \in {"a", "b"} |-> IF k = "a" THEN userValue(k) ELSE FuncValue]}

\* Entry.log with a pointer receiver: the caller's entry is the one filled in
logReceiverByPointer(entry, copy) == copy

\* the caller's entry after Entry.log ran: the receiver is a value, the
\* assignments to Time, Level, Message and Caller are to the copy
logReceiver(entry, copy) == entry

\* the calls begun so far
callsBegun ==
    {c \in Procs \X (1..MaxStmts) :
        c[2] <= done[c[1]] + (IF pc[c[1]] = "idle" THEN 0 ELSE 1)}

\* Logger.Log / WithParams / WithTime up to the Entry method: Log's gate,
\* then newEntry and the registration of the deferred releaseEntry
PoolCall(p, o, l) ==
    /\ pc[p] = "idle"
    /\ done[p] < MaxStmts
    /\ Cardinality(callsBegun) < MaxRunStmts
    /\ IF o = "Log" /\ ~IsLevelEnabled(l, Level)
       THEN /\ done' = [done EXCEPT ![p] = @ + 1]
            /\ op' = [op EXCEPT ![p] = "none"]
            /\ gets' = [gets EXCEPT ![p] = 0]
            /\ puts' = [puts EXCEPT ![p] = 0]
            /\ UNCHANGED <<pc, stmt, issued, pooled, entryPool, hent>>
       ELSE LET e == poolGet(entryPool)
            IN  /\ pooled' = IF e = 0 THEN Append(pooled, NewEntry(TRUE))
                             ELSE pooled
                /\ entryPool' = entryPool \ {e}
                /\ hent' = [hent EXCEPT ![p] = IF e = 0 THEN Len(pooled) + 1
                                                ELSE e]
                /\ op' = [op EXCEPT ![p] = o]
                /\ gets' = [gets EXCEPT ![p] = 1]
                /\ puts' = [puts EXCEPT ![p] = 0]
                /\ stmt' = [stmt EXCEPT ![p] = l]
                /\ issued' = IF o = "Log" THEN issued \cup {stmtId(p)}
                              ELSE issued
                /\ pc' = [pc EXCEPT ![p] = "method"]
                /\ done' = done
    /\ ret' = [ret EXCEPT ![p] = None]
    /\ UNCHANGED <<local, mu, muDisabled, sink, buffers, bufferPool, hbuf,
                   faultVars>>
    /\ UNCHANGED <<loggerVars, chainVars, call, heapVars>>

\* entry.Log(level, args...): the gate again, then Entry.log on a copy of the
\* entry, which formats and writes the line under the guard
PoolLog(p) ==
    /\ pc[p] = "method"
    /\ op[p] = "Log"
    /\ IF IsLevelEnabled(stmt[p], Level)
       THEN /\ lockReturns(muDisabled, mu)
            /\ \E now \in NowTimes :
                LET copy == logCopy(pooled[hent[p]], stmt[p],
                                    stmtMessage(stmtId(p)), now, ReportCaller,
                                    callerVars,
                                    StackOf("Logger", "Log", "direct", 0))
                IN  /\ \E iter \in FormatIters(copy, ReportCaller) :
                        sink' = Append(sink,
                                   [stmt |-> stmtId(p),
                                    bytes |-> lineBytes(Format(Formatter, copy,
                                                 ReportCaller, iter), 1)])
                    /\ pooled' = [pooled EXCEPT ![hent[p]] =
                                     logReceiver(@, copy)]
       ELSE UNCHANGED <<sink, pooled>>
    /\ pc' = [pc EXCEPT ![p] = "deferred"]
    /\ UNCHANGED <<done, stmt, local, mu, muDisabled, buffers, bufferPool, hbuf,
                   entryPool, hent, issued, faultVars, poolVars>>
    /\ UNCHANGED <<loggerVars, chainVars, call, heapVars>>

\* entry.WithParams(params): the new Entry is the call's result
PoolWithParams(p, params) ==
    /\ pc[p] = "method"
    /\ op[p] = "WithParams"
    /\ \E iter \in Perms(DOMAIN params) :
        ret' = [ret EXCEPT ![p] =
                  [op |-> "WithParams", params |-> params, t |-> ZeroTime,
                   entry |-> WithParams(pooled[hent[p]], params, iter)]]
    /\ pc' = [pc EXCEPT ![p] = "deferred"]
    /\ UNCHANGED <<done, stmt, local, mu, muDisabled, sink, buffers, bufferPool,
                   hbuf, pooled, entryPool, hent, issued, faultVars, op, gets,
                   puts>>
    /\ UNCHANGED <<loggerVars, chainVars, call, heapVars>>

\* entry.WithTime(t): the new Entry is the call's result
PoolWithTime(p, t) ==
    /\ pc[p] = "method"
    /\ op[p] = "WithTime"
    /\ ret' = [ret EXCEPT ![p] =
                 [op |-> "WithTime", params |-> EmptyParams, t |-> t,
                  entry |-> WithTime(pooled[hent[p]], t)]]
    /\ pc' = [pc EXCEPT ![p] = "deferred"]
    /\ UNCHANGED <<done, stmt, local, mu, muDisabled, sink, buffers, bufferPool,
                   hbuf, pooled, entryPool, hent, issued, faultVars, op, gets,
                   puts>>
    /\ UNCHANGED <<loggerVars, chainVars, call, heapVars>>

\* the deferred logger.releaseEntry(entry): a new empty map, entryPool.Put;
\* the call returns and its result is the caller's
PoolRelease(p) ==
    /\ pc[p] = "deferred"
    /\ pooled' = [pooled EXCEPT ![hent[p]].Data = EmptyParams]
    /\ entryPool' = entryPool \cup {hent[p]}
    /\ hent' = [hent EXCEPT ![p] = 0]
    /\ puts' = [puts EXCEPT ![p] = @ + 1]
    /\ done' = [done EXCEPT ![p] = @ + 1]
    /\ op' = [op EXCEPT ![p] = "none"]
    /\ ret' = [ret EXCEPT ![p] = None]
    /\ pc' = [pc EXCEPT ![p] = "idle"]
    /\ UNCHANGED <<stmt, local, mu, muDisabled, sink, buffers, bufferPool, hbuf,
                   issued, faultVars, gets>>
    /\ UNCHANGED <<loggerVars, chainVars, call, heapVars>>

(***************************************************************************)
(* SpecPool: NumProcs goroutines, MaxStmts calls each, while the minimum   *)
(* level moves between Info and Warn.                                      *)
(***************************************************************************)
PoolNext ==
    \/ \E p \in Procs, o \in PoolOps : PoolCall(p, o, InfoLevel)
    \/ \E p \in Procs : PoolLog(p)
    \/ \E p \in Procs, params \in PoolParams : PoolWithParams(p, params)
    \/ \E p \in Procs, t \in CustomTimes : PoolWithTime(p, t)
    \/ \E p \in Procs : PoolRelease(p)
    \/ \E level \in {InfoLevel, WarnLevel} : SetLevel(level)

PoolInit == LoggerInit /\ ChainInit /\ HeapInit /\ ConcInit
SpecPool == PoolInit /\ [][PoolNext]_vars

(***************************************************************************)
(* Claims about the entry pool.                                            *)
(***************************************************************************)
\* the pooled entries in the hands of a call
heldEntries == {hent[p] : p \in Procs} \ {0}

\* what a With* call can return when the entry it was handed is a fresh one
freshResults(r) ==
    IF r.op = "WithParams"
    THEN {WithParams(NewEntry(TRUE), r.params, iter) : iter \in Perms(DOMAIN r.params)}
    ELSE {WithTime(NewEntry(TRUE), r.t)}

\* C12: under any interleaving of Logger.Log and Logger.WithParams/WithTime
\* calls of several goroutines, a call that has returned has put back the
\* entry it got, once (also when Entry.Log's gate suppressed the emission);
\* a call in progress holds one entry, which no other call holds; every
\* pooled entry is resting or held; every pooled entry, resting or handed
\* out, has an empty field map, an unset time and an empty error string; so
\* what a call returns or writes is what a fresh entry gives.
C12_PooledEntriesClean ==
    /\ \A p \in Procs : pc[p] = "idle" => hent[p] = 0 /\ gets[p] = puts[p]
    /\ \A p \in Procs : pc[p] \in {"method", "deferred"} =>
         hent[p] \in 1..Len(pooled) /\ gets[p] = 1 /\ puts[p] = 0
    /\ \A p, q \in Procs : p # q /\ hent[p] # 0 => hent[p] # hent[q]
    /\ entryPool \cap heldEntries = {}
    /\ entryPool \cup heldEntries = 1..Len(pooled)
    /\ \A i \in 1..Len(pooled) :
         /\ pooled[i].Data = EmptyParams
         /\ pooled[i].Time = ZeroTime
         /\ pooled[i].err = EmptyStr
    /\ \A p \in Procs : ret[p] # None => ret[p].entry \in freshResults(ret[p])
    /\ \A i \in 1..Len(sink) : sink[i].bytes = lineOf(sink[i].stmt, InfoLevel)

\* two goroutines have used the same pooled entry one after the other: the
\* Log call of one passed Logger.Log's gate, was suppressed by Entry.Log's,
\* and returned with its entry put back; the other's Log call emitted
C12_Witness ==
    /\ Len(pooled) = 1
    /\ entryPool = {1}
    /\ \E p, q \in Procs :
         /\ p # q
         /\ pc[p] = "idle" /\ pc[q] = "idle"
         /\ <<p, 1>> \in issued /\ done[p] = 1 /\ sinkOf(<<p, 1>>) = {}
         /\ puts[p] = 1
         /\ <<q, 1>> \in issued /\ sinkOf(<<q, 1>>) # {}
         /\ puts[q] = 1

====
